---- MODULE Spec2Model ----
(***************************************************************************)
(* A model of the tidal formula layer: ChannelProperties, TideFrequency    *)
(* and height_from_tide.                                                   *)
(*                                                                         *)
(* Numbers.  Field values are drawn from small sets of integers.  A value  *)
(* a derived property returns is a record with a field kind:               *)
(*   "finite"  a finite float, kept exactly as the terms of its formula;   *)
(*   "inf"     an IEEE infinity with its sign (numpy division by zero);    *)
(*   "nan"     an IEEE NaN (numpy sqrt of a negative, 0/0);                *)
(*   "ZeroDivisionError", "TypeError", "ValueError"  the exception raised. *)
(* g is in hundredths (9.81 = 981), diffusion_prefactor in ten-thousandths *)
(* (0.005 = 50, 0.0125 = 125, 0.020 = 200).                                *)
(***************************************************************************)
EXTENDS Integers, Sequences, FiniteSets, TLC

VARIABLES
    chan,        \* the ChannelProperties object last constructed, or NoObject
    ctor,        \* the last ChannelProperties(...) call: its arguments and outcome
    chanCache,   \* the object's __dict__ entries written by cached_property
    chanEvals,   \* how often each derived formula of the object was evaluated
    chanRead,    \* the last read of a derived property: its name, its outcome
    tide,        \* the TideFrequency object last constructed, or NoObject
    tideCtor,    \* the field values that object was constructed with
    tideCache,   \* the object's __dict__ entries written by cached_property
    tideEvals,   \* how often each derived formula of the object was evaluated
    tideRead,    \* the last read of a derived property: its name, its outcome
    hcall,       \* the last sequential height_from_tide call: t and the result
    fc,          \* the last from_complex_amplitude call: argument before/after, result
    pc,          \* per thread: its position inside height_from_tide
    loc          \* per thread: the locals of its height_from_tide call

vars == <<chan, ctor, chanCache, chanEvals, chanRead, tide, tideCtor, tideCache,
          tideEvals, tideRead, hcall, fc, pc, loc>>

chanVars == <<chan, ctor, chanCache, chanEvals, chanRead>>
tideVars == <<tide, tideCtor, tideCache, tideEvals, tideRead, hcall>>
thrVars  == <<pc, loc>>

(***************************************************************************)
(* Bounds and input sets.                                                  *)
(***************************************************************************)
MaxEvals == 3      \* evaluations of one derived formula followed per object
MaxLen == 2        \* longest array of times / of complex amplitudes
NThreads == 2      \* threads calling height_from_tide concurrently

Widths == {2}
Heights == {-1, 0, 1, 2}
Lengths == {1, 2}
Flows == {0}
Drags == {-1, 0, 1}
Velocities == {0, 1}
Prefactors == {0, 49, 50, 125, 200, 201}

NoObject == [kind |-> "NoObject"]
NotFound == [kind |-> "NotFound"]
None     == [kind |-> "None"]

(***************************************************************************)
(* Python and numpy float arithmetic.                                      *)
(***************************************************************************)
Sgn(x) == IF x > 0 THEN 1 ELSE IF x < 0 THEN -1 ELSE 0

NaN == [kind |-> "nan"]
Inf(s) == [kind |-> "inf", sign |-> s]
ZeroDivisionError == [kind |-> "ZeroDivisionError"]

Raises(v) == v.kind \in {"ZeroDivisionError", "TypeError", "ValueError"}

\* a / b on Python floats: raises when b is zero.
PyDiv(a, b) ==
    IF b = 0 THEN ZeroDivisionError
    ELSE [kind |-> "finite", num |-> a, den |-> b]

\* np.sqrt(x) of a Python float, x in hundredths when scaled by g: NaN below
\* zero (a RuntimeWarning, no exception), the root otherwise.
NpSqrt(x) ==
    IF x < 0 THEN NaN
    ELSE [kind |-> "finite", sqrt |-> x]

\* r * h with r = np.sqrt(..) an np.float64 and h a Python number.
NpMulRoot(r, h) ==
    IF r.kind = "nan" THEN NaN
    ELSE [kind |-> "finite", sqrt |-> r.sqrt, times |-> h]

IsZeroRoot(d) == d.sqrt = 0 \/ d.times = 0

\* n / d with d an np.float64: numpy division, which never raises: x/0 is
\* an infinity (signed by the numerator and the zero), 0/0 and x/NaN are NaN.
NpDiv(n, d) ==
    IF d.kind = "nan" THEN NaN
    ELSE IF IsZeroRoot(d)
         THEN IF n = 0 THEN NaN
              ELSE Inf(Sgn(n) * (IF d.times < 0 THEN -1 ELSE 1))
         ELSE [kind |-> "finite", num |-> n, sqrt |-> d.sqrt, times |-> d.times]

(***************************************************************************)
(* functools.cached_property: a read returns the entry of the instance's   *)
(* __dict__ when there is one; otherwise it evaluates the getter and, when *)
(* the getter returns, stores the value.  A getter that raises stores      *)
(* nothing.                                                                *)
(***************************************************************************)
CachedGet(cache, name, value) ==
    IF cache[name] # NotFound
    THEN [cache |-> cache, ret |-> cache[name], evaluated |-> FALSE]
    ELSE IF Raises(value)
         THEN [cache |-> cache, ret |-> value, evaluated |-> TRUE]
         ELSE [cache |-> [cache EXCEPT ![name] = value],
               ret |-> value, evaluated |-> TRUE]

(***************************************************************************)
(* ChannelProperties                                                       *)
(***************************************************************************)
g == 981
PrefactorMin == 50
PrefactorMax == 200
DefaultPrefactor == 125

ChanProps == {"frictionless_wave_velocity", "friction_factor",
              "effective_diffusion_coefficient"}

ChanArgs ==
    [width : Widths, height : Heights, length : Lengths,
     tidal_averaged_flow : Flows, drag_coefficient : Drags,
     tidal_velocity_amplitude : Velocities,
     diffusion_prefactor : Prefactors]

\* The range check of __init__ (and the check with the boundaries excluded).
PrefactorRejectedStrict(p) == p <= PrefactorMin \/ p >= PrefactorMax
PrefactorRejected(p) == p < PrefactorMin \/ p > PrefactorMax

\* __init__: the outcome for the given arguments.
ChannelInit(a) ==
    IF PrefactorRejected(a.diffusion_prefactor)
    THEN [kind |-> "ValueError"]
    ELSE [kind |-> "ok"]

frictionless_wave_velocity(self) == NpSqrt(g * self.height)

friction_factor(self) ==
    LET q == PyDiv(self.drag_coefficient, self.height)
    IN  IF Raises(q) THEN q
        ELSE \* times 8 * U / (3 * np.pi): the value is num / (den * pi)
             [kind |-> "finite",
              num |-> q.num * 8 * self.tidal_velocity_amplitude,
              den |-> q.den * 3]

effective_diffusion_coefficient(self) ==
    NpDiv(self.diffusion_prefactor
            * ((self.width * self.width) * self.tidal_velocity_amplitude),
          NpMulRoot(NpSqrt(self.drag_coefficient), self.height))

ChanGetter(self, name) ==
    CASE name = "frictionless_wave_velocity" -> frictionless_wave_velocity(self)
      [] name = "friction_factor" -> friction_factor(self)
      [] name = "effective_diffusion_coefficient" ->
            effective_diffusion_coefficient(self)

\* c = ChannelProperties(width, ..., diffusion_prefactor): a call that raises
\* leaves the caller without an object.
ConstructChannel ==
    \E a \in ChanArgs :
        LET r == ChannelInit(a) IN
        /\ ctor' = [args |-> a, result |-> r]
        /\ chan' = IF r.kind = "ok" THEN a ELSE NoObject
        /\ chanCache' = [p \in ChanProps |-> NotFound]
        /\ chanEvals' = [p \in ChanProps |-> 0]
        /\ chanRead' = None
        /\ UNCHANGED <<tideVars, fc, thrVars>>

\* ChannelProperties(...) with diffusion_prefactor left to its default.
ConstructChannelDefault ==
    \E a \in ChanArgs :
        /\ a.diffusion_prefactor = DefaultPrefactor
        /\ ctor' = [args |-> a, result |-> ChannelInit(a)]
        /\ ChannelInit(a).kind = "ok"
        /\ chan' = a
        /\ chanCache' = [p \in ChanProps |-> NotFound]
        /\ chanEvals' = [p \in ChanProps |-> 0]
        /\ chanRead' = None
        /\ UNCHANGED <<tideVars, fc, thrVars>>

\* A read of chan.<name>.
ReadChannel ==
    \E name \in ChanProps :
        LET r == CachedGet(chanCache, name, ChanGetter(chan, name)) IN
        /\ chan # NoObject
        /\ chanEvals[name] < MaxEvals
        /\ chanCache' = r.cache
        /\ chanEvals' = IF r.evaluated
                        THEN [chanEvals EXCEPT ![name] = @ + 1]
                        ELSE chanEvals
        /\ chanRead' = [prop |-> name, ret |-> r.ret, evaluated |-> r.evaluated]
        /\ UNCHANGED <<chan, ctor, tideVars, fc, thrVars>>

(***************************************************************************)
(* TideFrequency                                                           *)
(*                                                                         *)
(* period_h and amplitude are integers.  phase is a number of half turns:  *)
(* phase = k stands for the float k * np.pi, whose cosine numpy returns as *)
(* exactly 1.0 or -1.0; its sine, at most 2.5e-16 in size, is taken as 0.  *)
(* angular_frequency is kept as the fraction num/den of pi (rad/s) and     *)
(* frequency as the fraction num/den (Hz).  Times are multiples of 1800 s, *)
(* so that with the periods used every angle angular_frequency * t is a    *)
(* whole number of quarter turns, where exp(1j * angle) is a power of 1j.  *)
(***************************************************************************)
Periods == {-1, 0, 1, 2}
Amplitudes == {-2, 0, 2}
HalfTurns == {0, 1}
Times == {0, 1800, 5400}

TideProps == {"complex_amplitude", "angular_frequency", "frequency"}
TideFields == {"period_h", "amplitude", "phase"}

TideArgs == [period_h : Periods, amplitude : Amplitudes, phase : HalfTurns]

Scalar(x) == [kind |-> "scalar", v |-> x]
Array(s) == [kind |-> "array", v |-> s]

SeqsUpTo(S, n) == UNION {[1..k -> S] : k \in 0..n}

\* The values t of a height_from_tide call: a float, or an ndarray of floats.
TimeArgs == {Scalar(x) : x \in Times} \cup {Array(s) : s \in SeqsUpTo(Times, MaxLen)}

NpCos(k) == IF k % 2 = 0 THEN 1 ELSE -1
NpSin(k) == 0

complex_amplitude(self) ==
    [kind |-> "finite",
     re |-> self.amplitude * NpCos(self.phase),
     im |-> self.amplitude * NpSin(self.phase)]

\* angular_frequency, and the division without the guard before it.
angular_frequency_unguarded(self) == PyDiv(2, self.period_h * 60 * 60)
angular_frequency(self) ==
    IF self.period_h = 0
    THEN [kind |-> "finite", num |-> 0, den |-> 1]
    ELSE PyDiv(2, self.period_h * 60 * 60)

frequency(self) ==
    IF self.period_h = 0
    THEN [kind |-> "finite", num |-> 0, den |-> 1]
    ELSE PyDiv(1, self.period_h * 60 * 60)

TideGetter(self, name) ==
    CASE name = "complex_amplitude" -> complex_amplitude(self)
      [] name = "angular_frequency" -> angular_frequency(self)
      [] name = "frequency" -> frequency(self)

(***************************************************************************)
(* The arithmetic of height_from_tide.  numpy broadcasts each operation: a *)
(* scalar combined with an ndarray gives a new ndarray of the same shape,  *)
(* element by element; scalars give a scalar.                              *)
(***************************************************************************)
\* (1j * w) * t for one t: the imaginary number whose coefficient is w * t,
\* as a fraction of pi.
ImagTimes(w, t) == [num |-> w.num * t, den |-> w.den]

\* The angle a (a fraction of pi) in quarter turns.
QuarterTurns(a) == (2 * a.num * Sgn(a.den)) \div (a.den * Sgn(a.den))

\* np.exp of one imaginary number: cos + 1j * sin of the angle.
CExp(a) ==
    LET q == QuarterTurns(a) % 4 IN
    [re |-> CASE q = 0 -> 1 [] q = 1 -> 0 [] q = 2 -> -1 [] q = 3 -> 0,
     im |-> CASE q = 0 -> 0 [] q = 1 -> 1 [] q = 2 -> 0 [] q = 3 -> -1]

CMul(x, y) ==
    [re |-> x.re * y.re - x.im * y.im,
     im |-> x.re * y.im + x.im * y.re]

\* 1j * w * t
NpImagTimes(w, t) ==
    IF t.kind = "array"
    THEN Array([i \in 1..Len(t.v) |-> ImagTimes(w, t.v[i])])
    ELSE Scalar(ImagTimes(w, t.v))

\* np.exp(x)
NpExp(x) ==
    IF x.kind = "array"
    THEN Array([i \in 1..Len(x.v) |-> CExp(x.v[i])])
    ELSE Scalar(CExp(x.v))

\* z * x for the complex scalar z (and the product that takes x for a scalar,
\* using its first element throughout)
NpMulFirstOnly(z, x) ==
    IF x.kind = "array"
    THEN Array([i \in 1..Len(x.v) |-> CMul(z, x.v[1])])
    ELSE Scalar(CMul(z, x.v))
NpMul(z, x) ==
    IF x.kind = "array"
    THEN Array([i \in 1..Len(x.v) |-> CMul(z, x.v[i])])
    ELSE Scalar(CMul(z, x.v))

\* np.real(x)
NpRealOf(x) ==
    IF x.kind = "array"
    THEN Array([i \in 1..Len(x.v) |-> x.v[i].re])
    ELSE Scalar(x.v.re)

\* np.real(z * np.exp(1j * w * t)) for the values z and w the two property
\* reads returned.
HeightValue(z, w, t) == NpRealOf(NpMul(z, NpExp(NpImagTimes(w, t))))

\* height_from_tide(tide, t) run alone: the two cached-property reads, left
\* operand first, then the arithmetic; an exception of a read propagates.
height_from_tide(self, cache, t) ==
    LET r1 == CachedGet(cache, "complex_amplitude", complex_amplitude(self))
        r2 == CachedGet(r1.cache, "angular_frequency", angular_frequency(self))
    IN  [cache |-> r2.cache,
         ret |-> IF Raises(r1.ret) THEN r1.ret
                 ELSE IF Raises(r2.ret) THEN r2.ret
                 ELSE HeightValue(r1.ret, r2.ret, t),
         evaluated |-> [p \in TideProps |->
                          CASE p = "complex_amplitude" -> r1.evaluated
                            [] p = "angular_frequency" -> r2.evaluated
                            [] OTHER -> FALSE]]

AllIdle == \A th \in 1..NThreads : pc[th].at = "idle"

\* TideFrequency(period_h, amplitude, phase): the dataclass __init__.
ConstructTide ==
    \E a \in TideArgs :
        /\ AllIdle
        /\ tide' = a
        /\ tideCtor' = a
        /\ tideCache' = [p \in TideProps |-> NotFound]
        /\ tideEvals' = [p \in TideProps |-> 0]
        /\ tideRead' = None
        /\ hcall' = None
        /\ UNCHANGED <<chanVars, fc, thrVars>>

\* A read of tide.<name>.
ReadTide ==
    \E name \in TideProps :
        LET r == CachedGet(tideCache, name, TideGetter(tide, name)) IN
        /\ tide # NoObject
        /\ tideCache' = r.cache
        /\ tideEvals' = IF r.evaluated
                        THEN [tideEvals EXCEPT ![name] = @ + 1]
                        ELSE tideEvals
        /\ tideRead' = [prop |-> name, ret |-> r.ret, evaluated |-> r.evaluated]
        /\ UNCHANGED <<tide, tideCtor, hcall, chanVars, fc, thrVars>>

\* A call height_from_tide(tide, t) that runs alone.
HeightFromTide ==
    \E t \in TimeArgs :
        LET r == height_from_tide(tide, tideCache, t) IN
        /\ tide # NoObject
        /\ tideCache' = r.cache
        /\ tideEvals' = [p \in TideProps |->
                            tideEvals[p] + (IF r.evaluated[p] THEN 1 ELSE 0)]
        /\ hcall' = [t |-> t, ret |-> r.ret]
        /\ UNCHANGED <<tide, tideCtor, tideRead, chanVars, fc, thrVars>>

\* tide.<field> = value: TideFrequency is a plain (not frozen) dataclass, so
\* the assignment goes through; the cached properties stay as they are.
SetAttr ==
    \E f \in TideFields :
        \E v \in (CASE f = "period_h" -> Periods
                    [] f = "amplitude" -> Amplitudes
                    [] f = "phase" -> HalfTurns) :
            /\ tide # NoObject
            /\ tide' = [tide EXCEPT ![f] = v]
            /\ UNCHANGED <<tideCtor, tideCache, tideEvals, tideRead, hcall,
                           chanVars, fc, thrVars>>

(***************************************************************************)
(* height_from_tide called from several threads on the same object.  Each  *)
(* cached-property read is the three steps of functools.cached_property,   *)
(* which takes no lock: look the name up in the instance's __dict__, run   *)
(* the getter on a miss, store what it returned.                           *)
(***************************************************************************)
Threads == 1..NThreads

\* The arguments the concurrent calls use.
ConcTimeArgs == {Scalar(1800), Array(<<1800, 5400>>)}

At(where, prop) == [at |-> where, prop |-> prop]
Idle == At("idle", "-")

\* Where a thread goes once it holds the value of prop.
AfterProp(prop) ==
    IF prop = "complex_amplitude"
    THEN At("lookup", "angular_frequency")
    ELSE At("compute", "-")

Slot(prop) == IF prop = "complex_amplitude" THEN "z" ELSE "w"

\* What a miss leaves in the cache while the getter runs: nothing (and not a
\* zero placeholder for the value under computation).
CacheBeginPlaceholder(cache, name) ==
    [cache EXCEPT ![name] =
        IF name = "complex_amplitude"
        THEN [kind |-> "finite", re |-> 0, im |-> 0]
        ELSE [kind |-> "finite", num |-> 0, den |-> 1]]
CacheBegin(cache, name) == cache

\* cache[attrname] = val
CacheStore(cache, name, value) == [cache EXCEPT ![name] = value]

ThreadCall(th) ==
    \E t \in ConcTimeArgs :
        /\ pc[th] = Idle
        /\ tide # NoObject
        /\ pc' = [pc EXCEPT ![th] = At("lookup", "complex_amplitude")]
        /\ loc' = [loc EXCEPT ![th] = [t |-> t, z |-> None, w |-> None, ret |-> None]]
        /\ UNCHANGED <<tideVars, chanVars, fc>>

ThreadLookup(th) ==
    \E prop \in {"complex_amplitude", "angular_frequency"} :
        /\ pc[th] = At("lookup", prop)
        /\ IF tideCache[prop] # NotFound
           THEN /\ loc' = [loc EXCEPT ![th][Slot(prop)] = tideCache[prop]]
                /\ pc' = [pc EXCEPT ![th] = AfterProp(prop)]
                /\ UNCHANGED tideCache
           ELSE /\ tideCache' = CacheBegin(tideCache, prop)
                /\ pc' = [pc EXCEPT ![th] = At("eval", prop)]
                /\ UNCHANGED loc
        /\ UNCHANGED <<tide, tideCtor, tideEvals, tideRead, hcall, chanVars, fc>>

ThreadEval(th) ==
    \E prop \in {"complex_amplitude", "angular_frequency"} :
        /\ pc[th] = At("eval", prop)
        /\ loc' = [loc EXCEPT ![th][Slot(prop)] = TideGetter(tide, prop)]
        /\ tideEvals' = [tideEvals EXCEPT ![prop] = @ + 1]
        /\ pc' = [pc EXCEPT ![th] = At("store", prop)]
        /\ UNCHANGED <<tide, tideCtor, tideCache, tideRead, hcall, chanVars, fc>>

ThreadStore(th) ==
    \E prop \in {"complex_amplitude", "angular_frequency"} :
        /\ pc[th] = At("store", prop)
        /\ tideCache' = CacheStore(tideCache, prop, loc[th][Slot(prop)])
        /\ pc' = [pc EXCEPT ![th] = AfterProp(prop)]
        /\ UNCHANGED <<tide, tideCtor, tideEvals, tideRead, hcall, loc, chanVars, fc>>

ThreadCompute(th) ==
    /\ pc[th] = At("compute", "-")
    /\ loc' = [loc EXCEPT ![th].ret = HeightValue(loc[th].z, loc[th].w, loc[th].t)]
    /\ pc' = [pc EXCEPT ![th] = At("done", "-")]
    /\ UNCHANGED <<tideVars, chanVars, fc>>

ThreadReturn(th) ==
    /\ pc[th] = At("done", "-")
    /\ pc' = [pc EXCEPT ![th] = Idle]
    /\ loc' = [loc EXCEPT ![th] = None]
    /\ UNCHANGED <<tideVars, chanVars, fc>>

(***************************************************************************)
(* TideFrequency.from_complex_amplitude                                    *)
(*                                                                         *)
(* The argument is a complex scalar or an ndarray of complex numbers.  The *)
(* floats of its storage are records: Num(n) is the float n, and the       *)
(* arctangent of a nonzero n, which is no integer, is kept as the term     *)
(* [fn |-> "arctan", x |-> n].                                             *)
(***************************************************************************)
Num(n) == [fn |-> "id", x |-> n]
Complex(re, im) == [re |-> Num(re), im |-> Num(im)]

TypeError == [kind |-> "TypeError"]

Isqrt(n) == CHOOSE r \in 0..n : r * r <= n /\ (r + 1) * (r + 1) > n

Parts == {-3, 0, 4}

\* The complex numbers used as arguments: those whose modulus is an integer.
ComplexInputs ==
    {Complex(a, b) : <<a, b>> \in
        {q \in Parts \X Parts :
            Isqrt(q[1] * q[1] + q[2] * q[2]) * Isqrt(q[1] * q[1] + q[2] * q[2])
                = q[1] * q[1] + q[2] * q[2]}}

ComplexArgs ==
    {Scalar(z) : z \in ComplexInputs}
        \cup {Array(s) : s \in SeqsUpTo(ComplexInputs, MaxLen)}

NpReal(z) == z.re
NpImag(z) == z.im
NpSign(f) == Sgn(f.x)
NpAbs(z) == Isqrt(z.re.x * z.re.x + z.im.x * z.im.x)
NpArctan(f) == IF f.x = 0 THEN Num(0) ELSE [fn |-> "arctan", x |-> f.x]

\* np.sign(np.real(z)) * np.abs(z) of one element
SignedMagnitude(z) == NpSign(NpReal(z)) * NpAbs(z)

\* np.sign(np.real(arg)) * np.abs(arg): a new scalar or a new ndarray
NpSignedMagnitude(arg) ==
    IF arg.kind = "array"
    THEN Array([i \in 1..Len(arg.v) |-> SignedMagnitude(arg.v[i])])
    ELSE Scalar(SignedMagnitude(arg.v))

\* np.arctan(np.imag(z), np.real(z)): the second positional argument of a
\* ufunc is out.  np.real of a scalar is a float, which is no array to
\* write to: TypeError.  np.real of an ndarray is a view of the real parts
\* of its storage: the arctangents of the imaginary parts are written there
\* and that view is returned.
ArctanOut(arg) ==
    IF arg.kind = "scalar"
    THEN [ret |-> TypeError, after |-> arg]
    ELSE [ret |-> [kind |-> "view", base |-> "complex_amplitude", part |-> "real"],
          after |-> Array([i \in 1..Len(arg.v) |->
                             [re |-> NpArctan(NpImag(arg.v[i])),
                              im |-> arg.v[i].im]])]

\* from_complex_amplitude(complex_amplitude, period): the storage of the
\* argument after the call, and the object returned or the exception.
from_complex_amplitude(arg, period) ==
    LET amplitude == NpSignedMagnitude(arg)
        phase == ArctanOut(arg)
    IN  IF Raises(phase.ret)
        THEN [after |-> phase.after, ret |-> phase.ret]
        ELSE [after |-> phase.after,
              ret |-> [kind |-> "TideFrequency", period_h |-> period,
                       amplitude |-> amplitude, phase |-> phase.ret]]

\* TideFrequency.from_complex_amplitude(arg, period) on a fresh argument.
FromComplexAmplitude ==
    \E arg \in ComplexArgs, period \in Periods :
        LET r == from_complex_amplitude(arg, period) IN
        /\ fc' = [src |-> None, period |-> period, before |-> arg,
                  after |-> r.after, ret |-> r.ret]
        /\ UNCHANGED <<tideVars, chanVars, thrVars>>

\* TideFrequency.from_complex_amplitude(tide.complex_amplitude, tide.period_h):
\* the property of an object with float fields is an np.complex128 scalar.
RoundTrip ==
    LET c == CachedGet(tideCache, "complex_amplitude", complex_amplitude(tide))
        arg == Scalar(Complex(c.ret.re, c.ret.im))
        r == from_complex_amplitude(arg, tide.period_h)
    IN  /\ tide # NoObject
        /\ tideCache' = c.cache
        /\ tideEvals' = IF c.evaluated
                        THEN [tideEvals EXCEPT !["complex_amplitude"] = @ + 1]
                        ELSE tideEvals
        /\ fc' = [src |-> tide, period |-> tide.period_h, before |-> arg,
                  after |-> r.after, ret |-> r.ret]
        /\ UNCHANGED <<tide, tideCtor, tideRead, hcall, chanVars, thrVars>>

(***************************************************************************)
(* Specifications                                                          *)
(***************************************************************************)
Init ==
    /\ chan = NoObject
    /\ ctor = None
    /\ chanCache = [p \in ChanProps |-> NotFound]
    /\ chanEvals = [p \in ChanProps |-> 0]
    /\ chanRead = None
    /\ tide = NoObject
    /\ tideCtor = NoObject
    /\ tideCache = [p \in TideProps |-> NotFound]
    /\ tideEvals = [p \in TideProps |-> 0]
    /\ tideRead = None
    /\ hcall = None
    /\ fc = None
    /\ pc = [th \in Threads |-> Idle]
    /\ loc = [th \in Threads |-> None]

\* ChannelProperties: construction and reads of the derived properties.
NextChannel == ConstructChannel \/ ConstructChannelDefault \/ ReadChannel
SpecChannel == Init /\ [][NextChannel]_vars

\* TideFrequency: construction, reads and height_from_tide calls, one at a time.
NextTide == ConstructTide \/ ReadTide \/ HeightFromTide
SpecTide == Init /\ [][NextTide]_vars

\* TideFrequency: construction, reads and assignments to the fields.
NextAssign == ConstructTide \/ ReadTide \/ SetAttr
SpecAssign == Init /\ [][NextAssign]_vars

\* from_complex_amplitude on fresh arguments.
NextFromComplex == FromComplexAmplitude
SpecFromComplex == Init /\ [][NextFromComplex]_vars

\* from_complex_amplitude on an object's own complex_amplitude.
NextRoundTrip == ConstructTide \/ ReadTide \/ RoundTrip
SpecRoundTrip == Init /\ [][NextRoundTrip]_vars

\* height_from_tide called concurrently on one object.
NextConc ==
    \/ ConstructTide
    \/ \E th \in Threads :
          \/ ThreadCall(th)
          \/ ThreadLookup(th)
          \/ ThreadEval(th)
          \/ ThreadStore(th)
          \/ ThreadCompute(th)
          \/ ThreadReturn(th)
SpecConc == Init /\ [][NextConc]_vars

(***************************************************************************)
(* Properties                                                              *)
(***************************************************************************)

\* C1: constructing ChannelProperties succeeds exactly when
\* diffusion_prefactor lies in [0.005, 0.020], boundaries included, and
\* fails with ValueError otherwise, whatever the other arguments are.
C1_ConstructionRange ==
    ctor # None =>
        LET p == ctor.args.diffusion_prefactor
            inRange == PrefactorMin <= p /\ p <= PrefactorMax
        IN  /\ inRange => (ctor.result.kind = "ok" /\ chan = ctor.args)
            /\ ~inRange => (ctor.result.kind = "ValueError" /\ chan = NoObject)

\* C1 witness: the upper boundary accepted with a zero height and a negative
\* drag coefficient.
C1_Witness ==
    /\ ctor # None
    /\ ctor.result.kind = "ok"
    /\ ctor.args.diffusion_prefactor = PrefactorMax
    /\ ctor.args.height = 0
    /\ ctor.args.drag_coefficient < 0

\* C2: no read of a derived property of a constructed ChannelProperties
\* raises; it returns a number, finite or not.
C2_ReadsNeverRaise ==
    chanRead # None => ~Raises(chanRead.ret)

\* C3: a completed from_complex_amplitude call returns an object with the
\* given period, leaves the storage of its argument as it was, and returns
\* no field that is a view of that storage.
C3_ArgumentUntouched ==
    (fc # None /\ fc.ret.kind = "TideFrequency") =>
        /\ fc.ret.period_h = fc.period
        /\ fc.after = fc.before
        /\ fc.ret.amplitude.kind # "view"
        /\ fc.ret.phase.kind # "view"

\* C4: the round trip through complex_amplitude and from_complex_amplitude
\* returns an object with the same period and amplitude whenever the real
\* part of the complex amplitude is >= 0.
C4_RoundTrip ==
    (fc # None /\ fc.src # None /\ fc.before.v.re.x >= 0) =>
        /\ fc.ret.kind = "TideFrequency"
        /\ fc.ret.period_h = fc.src.period_h
        /\ fc.ret.amplitude.v = fc.src.amplitude

\* C5: from_complex_amplitude completes for every complex input and returns
\* an amplitude of sign(Re z) * |z|.
C5_SignedMagnitude ==
    fc # None =>
        /\ fc.ret.kind = "TideFrequency"
        /\ IF fc.before.kind = "scalar"
           THEN fc.ret.amplitude.v
                    = Sgn(fc.before.v.re.x) * NpAbs(fc.before.v)
           ELSE /\ Len(fc.ret.amplitude.v) = Len(fc.before.v)
                /\ \A i \in 1..Len(fc.before.v) :
                      fc.ret.amplitude.v[i]
                          = Sgn(fc.before.v[i].re.x) * NpAbs(fc.before.v[i])

\* C6: height_from_tide on an array of times returns an array of the same
\* length whose i-th element is what height_from_tide returns for the i-th
\* time alone.
C6_Elementwise ==
    (hcall # None /\ hcall.t.kind = "array") =>
        /\ hcall.ret.kind = "array"
        /\ Len(hcall.ret.v) = Len(hcall.t.v)
        /\ \A i \in 1..Len(hcall.t.v) :
              LET one == height_from_tide(tide, tideCache, Scalar(hcall.t.v[i])).ret
              IN  one.kind = "scalar" /\ hcall.ret.v[i] = one.v

\* C6 witness: a call on an array of MaxLen times whose heights differ.
C6_Witness ==
    /\ hcall # None
    /\ hcall.t.kind = "array"
    /\ Len(hcall.t.v) = MaxLen
    /\ tide.period_h # 0
    /\ hcall.ret.v[1] # hcall.ret.v[2]

\* C7: the fields of a constructed TideFrequency keep the values it was
\* constructed with.
C7_FieldsFrozen ==
    tide # NoObject => tide = tideCtor

\* C8: every concurrent height_from_tide call returns what a call running
\* alone on the object returns for the same t, and the fields of the object
\* stay as constructed.
C8_ConcurrentCalls ==
    /\ tide = tideCtor
    /\ \A th \in Threads :
          pc[th].at = "done" =>
              loc[th].ret =
                  height_from_tide(tideCtor, [p \in TideProps |-> NotFound],
                                   loc[th].t).ret

\* C8 witness: two calls have finished after both ran the complex_amplitude
\* getter (a concurrent first access), with a nonzero height.
C8_Witness ==
    /\ pc[1].at = "done"
    /\ pc[2].at = "done"
    /\ tideEvals["complex_amplitude"] = 2
    /\ tideEvals["angular_frequency"] = 2
    /\ loc[1].ret # Scalar(0)
    /\ loc[1].ret.kind = "scalar"

C10_EvaluatedAtMostOnce ==
    /\ \A p \in ChanProps : chanEvals[p] <= 1
    /\ \A p \in TideProps : tideEvals[p] <= 1
    /\ (chanRead # None /\ ~chanRead.evaluated)
          => chanRead.ret = chanCache[chanRead.prop]

====
